---- MODULE Spec2Model ----
(***************************************************************************)
(* A model of the forward proxy of src/src/main.rs and src/src/config.rs:  *)
(* the request dispatcher (handle_request, handle_connect, proxy,          *)
(* proxy_internal), the domain classifier (Config::is_ton_domain), the URI *)
(* rewriter (rewrite_ton_uri) and the CONNECT tunnel (tunnel).             *)
(*                                                                         *)
(* Strings are sequences of characters; a character is a one-letter TLA+   *)
(* string, and the two scheme prefixes "http://" and "https://" are kept   *)
(* as one element each.                                                    *)
(***************************************************************************)
EXTENDS Integers, Sequences, FiniteSets, TLC

\* ------------------------------------------------------------------------
\* Bounds of the model
\* ------------------------------------------------------------------------
MaxHostLen == 2
MaxSuffixLen == 2
MaxDomains == 2
MaxGwTail == 2
MaxStream == 3
MaxTunnels == 2

\* ------------------------------------------------------------------------
\* Strings
\* ------------------------------------------------------------------------
SeqsUpTo(S, n) == UNION { [1..k -> S] : k \in 0..n }

Min(a, b) == IF a < b THEN a ELSE b

Take(s, n) == SubSeq(s, 1, n)

Drop(s, n) == SubSeq(s, n + 1, Len(s))

IsPrefix(p, s) == Len(p) <= Len(s) /\ Take(s, Len(p)) = p

\* an ends_with that compares without regard to case
Lower(c) == IF c = "T" THEN "t" ELSE c

ends_with_IgnoreCase(s, d) ==
    /\ Len(d) <= Len(s)
    /\ \A i \in 1..Len(d) : Lower(s[Len(s) - Len(d) + i]) = Lower(d[i])

\* str::ends_with: the last Len(d) characters of s, compared one by one
ends_with(s, d) ==
    /\ Len(d) <= Len(s)
    /\ \A i \in 1..Len(d) : s[Len(s) - Len(d) + i] = d[i]

\* str::trim_end_matches('/'): every trailing slash is removed
RECURSIVE trim_end_matches(_)
trim_end_matches(s) ==
    IF s # <<>> /\ s[Len(s)] = "/" THEN trim_end_matches(Take(s, Len(s) - 1)) ELSE s

\* position of the first element of s that lies in the set cs, 0 when none does
RECURSIVE FindFrom(_, _, _)
FindFrom(s, cs, i) ==
    IF i > Len(s) THEN 0
    ELSE IF s[i] \in cs THEN i
    ELSE FindFrom(s, cs, i + 1)

Find(s, cs) == FindFrom(s, cs, 1)

\* ------------------------------------------------------------------------
\* http::Uri
\* ------------------------------------------------------------------------
NoScheme == "NoScheme"
\* Option values: None is the empty sequence, Some(x) is <<x>>
None == <<>>
Some(x) == <<x>>
Unwrap(o) == o[1]
NoAuthority == None
NoQuery == None
NoPort == "NoPort"

Schemes == {"http://", "https://"}

\* characters http::Uri rejects wherever they stand (here: the space)
InvalidUriChars == {" "}

\* Uri::host(): the host of the authority; None is returned as <<>> by the
\* callers' unwrap_or("")
UriHost(uri) == IF uri.authority = NoAuthority THEN <<>> ELSE Unwrap(uri.authority).host

\* Uri::path(): an empty path of an absolute URI reads as "/"
UriPath(uri) ==
    IF uri.path = <<>> /\ uri.scheme # NoScheme THEN <<"/">> ELSE uri.path

\* Uri::query()
UriQuery(uri) == uri.query

\* Authority as text: host, then ":port" when there is a port
AuthorityToString(a) ==
    IF a.port = NoPort THEN a.host ELSE a.host \o <<":", a.port>>

\* Display for Uri: scheme, authority, path(), "?" query
UriToString(uri) ==
    (IF uri.scheme = NoScheme THEN <<>> ELSE <<uri.scheme>>)
    \o (IF uri.authority = NoAuthority THEN <<>> ELSE AuthorityToString(Unwrap(uri.authority)))
    \o UriPath(uri)
    \o (IF uri.query = NoQuery THEN <<>> ELSE <<"?">> \o Unwrap(uri.query))

NoUri == [scheme |-> NoScheme, authority |-> NoAuthority, path |-> <<>>, query |-> NoQuery]

ParseErr == [ok |-> FALSE, uri |-> NoUri]

\* the text before the first "#": a fragment is dropped
CutFragment(s) == IF Find(s, {"#"}) = 0 THEN s ELSE Take(s, Find(s, {"#"}) - 1)

\* t, free of a fragment, split at its first "?", which stands at q (0: none)
SplitQuery(t, q) ==
    IF \E i \in 1..Len(t) : t[i] \in InvalidUriChars
    THEN [ok |-> FALSE, path |-> <<>>, query |-> NoQuery]
    ELSE IF q = 0
    THEN [ok |-> TRUE, path |-> t, query |-> NoQuery]
    ELSE [ok |-> TRUE, path |-> Take(t, q - 1), query |-> Some(Drop(t, q))]

\* the one element of a set of one element
Only(S) == CHOOSE x \in S : TRUE

\* PathAndQuery::from_shared: the text is cut at the first "#" (a fragment is
\* dropped), then split at the first "?"; an invalid character before the
\* fragment is an error
ParsePathAndQuery(s) ==
    Only({ SplitQuery(t, Find(t, {"?"})) : t \in {CutFragment(s)} })

\* the end of the authority: the place before the first "/", "?" or "#"
AuthorityEnd(rest) ==
    IF Find(rest, {"/", "?", "#"}) = 0 THEN Len(rest) ELSE Find(rest, {"/", "?", "#"}) - 1

\* parse_full after the scheme: the authority auth and the path and query pq
\* of the text rest
ParseFull(scheme, rest, auth, pq) ==
    IF \E i \in 1..Len(auth) : auth[i] \in InvalidUriChars THEN ParseErr
    ELSE IF scheme = NoScheme THEN
        IF Len(auth) # Len(rest) THEN ParseErr
        ELSE [ok |-> TRUE,
              uri |-> [scheme |-> NoScheme,
                       authority |-> Some([host |-> auth, port |-> NoPort]),
                       path |-> <<>>, query |-> NoQuery]]
    ELSE IF Len(auth) = 0 THEN ParseErr
    ELSE IF ~pq.ok THEN ParseErr
    ELSE [ok |-> TRUE,
          uri |-> [scheme |-> scheme,
                   authority |-> Some([host |-> auth, port |-> NoPort]),
                   path |-> pq.path, query |-> pq.query]]

\* str::parse::<Uri>(): an empty text is an error; a text starting with "/"
\* is a path and query alone; otherwise an optional scheme, then an authority
\* up to the first "/", "?" or "#". Without a scheme the authority must be
\* the whole text; with a scheme it must not be empty.
ParseUri(s) ==
    IF s = <<>> THEN ParseErr
    ELSE IF s[1] = "/" THEN
        Only({ IF pq.ok
               THEN [ok |-> TRUE,
                     uri |-> [scheme |-> NoScheme, authority |-> NoAuthority,
                              path |-> pq.path, query |-> pq.query]]
               ELSE ParseErr : pq \in {ParsePathAndQuery(s)} })
    ELSE
        Only({ ParseFull(IF s[1] \in Schemes THEN s[1] ELSE NoScheme, rest, auth,
                         ParsePathAndQuery(Drop(rest, Len(auth)))) :
                 <<rest, auth>> \in { <<r, Take(r, AuthorityEnd(r))>> :
                     r \in {IF s[1] \in Schemes THEN Drop(s, 1) ELSE s} } })

\* ------------------------------------------------------------------------
\* Config::is_ton_domain (src/src/config.rs)
\* ------------------------------------------------------------------------
\* the receiver and the argument of ends_with exchanged
is_ton_domain_Swapped(ton_domains, domain) ==
    \E i \in 1..Len(ton_domains) : ends_with(ton_domains[i], domain)

is_ton_domain(ton_domains, domain) ==
    \E i \in 1..Len(ton_domains) : ends_with(domain, ton_domains[i])

\* ------------------------------------------------------------------------
\* rewrite_ton_uri (src/src/main.rs)
\* ------------------------------------------------------------------------
\* the text built by format!("{}/{}{}{}", ...)
new_uri_str(uri, gateway) ==
    trim_end_matches(gateway)
    \o <<"/">>
    \o UriHost(uri)
    \o UriPath(uri)
    \o (IF UriQuery(uri) = NoQuery THEN <<>> ELSE <<"?">> \o Unwrap(UriQuery(uri)))

\* Ok(new_uri) or the parse error
rewrite_ton_uri(uri, gateway) == ParseUri(new_uri_str(uri, gateway))

\* ------------------------------------------------------------------------
\* Inputs
\* ------------------------------------------------------------------------
\* Host names are written over a lower-case letter and its upper-case form.
HostChars == {"t", "T"}

Hosts == SeqsUpTo(HostChars, MaxHostLen)

Suffixes == SeqsUpTo(HostChars, MaxSuffixLen)

\* every Vec<String> of at most MaxDomains suffixes
SuffixLists == SeqsUpTo(Suffixes, MaxDomains)

\* gateway base texts: nothing, a host without a scheme or an absolute base,
\* followed by slashes, a fragment mark or an invalid character
GatewayHeads == {<<>>, <<"g">>, <<"https://", "g">>}

GatewayTailChars == {"/", "#", " "}

Gateways == { h \o t : h \in GatewayHeads, t \in SeqsUpTo(GatewayTailChars, MaxGwTail) }

\* a well-formed base with a trailing slash, a base with a fragment mark and
\* a base without a scheme
SampleGateways == {<<"https://", "g", "/">>, <<"https://", "g", "/", "#">>, <<"g">>}

\* lists with no suffix, one suffix, two suffixes, and the empty suffix
SampleSuffixLists == {<<>>, <<<<"t">>>>, <<<<"T", "t">>, <<"T">>>>, <<<<>>>>}

Paths == {<<>>, <<"/", "a">>}

Queries == {NoQuery, Some(<<>>), Some(<<"x">>)}

Ports == {NoPort, "443"}

\* the parts of a request the proxy never looks into
Payloads == {[method |-> "GET", headers |-> "h1", body |-> "b1"],
             [method |-> "POST", headers |-> "h2", body |-> "b2"]}

\* absolute-form targets (scheme, host, path, query) and origin-form targets
\* (no scheme, no authority, a path that is not empty)
AbsoluteUris(hs, ps, qs) ==
    { [scheme |-> sc, authority |-> Some([host |-> h, port |-> NoPort]), path |-> p, query |-> q] :
        sc \in Schemes, h \in hs \ {<<>>}, p \in ps, q \in qs }

OriginUris(ps, qs) ==
    { [scheme |-> NoScheme, authority |-> NoAuthority, path |-> p, query |-> q] :
        p \in ps \ {<<>>}, q \in qs }

\* authority-form targets of CONNECT
AuthorityUris(hs) ==
    { [scheme |-> NoScheme, authority |-> Some([host |-> h, port |-> pt]), path |-> <<>>,
       query |-> NoQuery] : h \in hs \ {<<>>}, pt \in Ports }

MkRequest(pl, uri) ==
    [method |-> pl.method, uri |-> uri, headers |-> pl.headers, body |-> pl.body]

PlainRequests(uris) == { MkRequest(pl, u) : pl \in Payloads, u \in uris }

ConnectRequests ==
    { [method |-> "CONNECT", uri |-> u, headers |-> "h1", body |-> "b0"] :
        u \in AuthorityUris(Hosts) \cup OriginUris(Paths, {NoQuery}) }

SamplePathQueries == {[path |-> <<>>, query |-> NoQuery], [path |-> <<"/", "a">>, query |-> Some(<<"x">>)]}

SampleUris ==
    { [scheme |-> "http://", authority |-> Some([host |-> h, port |-> NoPort]),
       path |-> pq.path, query |-> pq.query] : h \in Hosts \ {<<>>}, pq \in SamplePathQueries }
    \cup OriginUris(Paths, {NoQuery})

Requests == PlainRequests(SampleUris) \cup ConnectRequests

\* what the HTTP client collaborator may answer
UpstreamResponses == {[status |-> 200, headers |-> "uh1", body |-> <<"ub1">>],
                      [status |-> 500, headers |-> "uh2", body |-> <<"ub2">>]}

ClientErrors == {"connection refused"}

NoReq == [method |-> "none", uri |-> NoUri, headers |-> "none", body |-> "none"]

\* ------------------------------------------------------------------------
\* State
\* ------------------------------------------------------------------------
VARIABLES
    config,        \* AppState.config: ton_domains and ton_gateway
    req,           \* the inbound request of handle_request
    pc,            \* where handle_request stands
    returned,      \* what handle_request has returned, in order
    client_calls,  \* the requests handed to state.client.request, in order
    client_results,\* what state.client.request has answered, in order
    task_pc,       \* where the task spawned by handle_connect stands
    addr,          \* the address moved into the spawned task
    dialed,        \* the addresses TcpStream::connect was called with
    task_log,      \* the errors the spawned task has logged
    tunnel_result, \* what tunnel has returned: <<>> until it returns
    sent,          \* per direction: the bytes the source endpoint has sent so far
    src_closed,    \* per direction: the source endpoint has closed its write side
    rd,            \* per direction: the bytes the loop has read so far
    buffer,        \* per direction: buffer[..n] of the loop
    written,       \* per direction: the bytes written to the peer so far
    shutdown,      \* per direction: shutdown was called on the peer's write end
    half_closed,   \* per direction: the peer has received the half-close
    loop_pc,       \* per direction: where the relay loop stands
    loop_result,   \* per direction: how the relay loop ended
    mark,          \* per direction: how many bytes the opposite source had sent
                   \* when this loop read its end of stream (history)
    detached       \* where the tasks spawned for earlier CONNECT requests stand

relayVars == <<sent, src_closed, rd, buffer, written, shutdown, half_closed, loop_pc,
               loop_result, mark>>

vars == <<config, req, pc, returned, client_calls, client_results, task_pc, addr, dialed, task_log,
          tunnel_result, relayVars, detached>>

handlerVars == <<req, pc, returned, client_calls, client_results>>

taskVars == <<task_pc, addr, dialed, task_log, tunnel_result, relayVars>>

\* ------------------------------------------------------------------------
\* Responses
\* ------------------------------------------------------------------------
OK == 200
BAD_GATEWAY == 502

\* Response::new(body) with the status set afterwards
\* a failure response with status 500 in place of the status asked for
Synthesized_500(status, body) ==
    [kind |-> "Ok", origin |-> "core failure",
     response |-> [status |-> 500, headers |-> "none", body |-> body]]

\* what handle_request returns is Ok(response); origin tells who made the
\* response: the core for a failure, the core for an accepted CONNECT, or the
\* upstream server
Synthesized(status, body) ==
    [kind |-> "Ok", origin |-> "core failure",
     response |-> [status |-> status, headers |-> "none", body |-> body]]

\* the upstream response rebuilt from its status and body alone
Relayed_DropsHeaders(response) ==
    [kind |-> "Ok", origin |-> "upstream",
     response |-> [response EXCEPT !.headers = "none"]]

\* Ok(response) with the response of the HTTP client
Relayed(response) == [kind |-> "Ok", origin |-> "upstream", response |-> response]

\* ------------------------------------------------------------------------
\* handle_request, handle_connect, proxy, proxy_internal
\* ------------------------------------------------------------------------
Receive ==
    /\ pc = "idle"
    /\ req' \in Requests
    /\ pc' = "handle_request"
    /\ UNCHANGED <<config, detached, returned, client_calls, client_results, taskVars>>

\* a handle_connect that spawns the tunnel task before it looks at the
\* authority
handle_connect_SpawnsFirst(r) ==
    IF r.uri.authority = NoAuthority
    THEN [ok |-> FALSE, err |-> "CONNECT request missing authority",
          spawn |-> TRUE, addr |-> <<>>]
    ELSE [ok |-> TRUE, response |-> [status |-> OK, headers |-> "none", body |-> <<>>],
          spawn |-> TRUE, addr |-> AuthorityToString(Unwrap(r.uri.authority))]

\* handle_connect: Ok(response) with a spawned task, or the error of a
\* missing authority
handle_connect(r) ==
    IF r.uri.authority = NoAuthority
    THEN [ok |-> FALSE, err |-> "CONNECT request missing authority",
          spawn |-> FALSE, addr |-> <<>>]
    ELSE [ok |-> TRUE, response |-> [status |-> OK, headers |-> "none", body |-> <<>>],
          spawn |-> TRUE, addr |-> AuthorityToString(Unwrap(r.uri.authority))]

\* a CONNECT branch that awaits the spawned task before it returns
HandleConnect_AwaitsTunnel ==
    /\ pc = "handle_request"
    /\ req.method = "CONNECT"
    /\ \E hc \in {handle_connect(req)} :
           /\ returned' = IF hc.ok THEN returned
                            ELSE Append(returned,
                                   Synthesized(BAD_GATEWAY, <<"CONNECT error: ", hc.err>>))
           /\ task_pc' = IF hc.spawn THEN "upgrade" ELSE task_pc
           /\ addr' = IF hc.spawn THEN hc.addr ELSE addr
           /\ pc' = IF hc.ok THEN "awaiting task" ELSE "returned"
    /\ UNCHANGED <<config, detached, req, client_calls, client_results, dialed, task_log,
                   tunnel_result, relayVars>>

\* the CONNECT branch of handle_request
HandleConnect ==
    /\ pc = "handle_request"
    /\ req.method = "CONNECT"
    /\ \E hc \in {handle_connect(req)} :
           /\ returned' = Append(returned,
                IF hc.ok
                THEN [kind |-> "Ok", origin |-> "core upgrade", response |-> hc.response]
                ELSE Synthesized(BAD_GATEWAY, <<"CONNECT error: ", hc.err>>))
           /\ task_pc' = IF hc.spawn THEN "upgrade" ELSE task_pc
           /\ addr' = IF hc.spawn THEN hc.addr ELSE addr
    /\ pc' = "returned"
    /\ UNCHANGED <<config, detached, req, client_calls, client_results, dialed, task_log,
                   tunnel_result, relayVars>>

\* a proxy_internal that computes the new URI and forwards the old request
proxy_internal_KeepsUri(cfg, r) ==
    LET rw == rewrite_ton_uri(r.uri, cfg.ton_gateway)
    IN  IF is_ton_domain(cfg.ton_domains, UriHost(r.uri)) /\ ~rw.ok
        THEN [ok |-> FALSE, ton |-> TRUE,
              err |-> <<"Failed to parse rewritten URI: ",
                        new_uri_str(r.uri, cfg.ton_gateway)>>]
        ELSE [ok |-> TRUE, ton |-> is_ton_domain(cfg.ton_domains, UriHost(r.uri)),
              new_req |-> r]

\* a proxy_internal that falls back to the original request when the
\* rewriter fails
proxy_internal_IgnoresRewriteError(cfg, r) ==
    LET rw == rewrite_ton_uri(r.uri, cfg.ton_gateway)
        ton == is_ton_domain(cfg.ton_domains, UriHost(r.uri))
    IN  [ok |-> TRUE, ton |-> ton,
         new_req |-> IF ton /\ rw.ok THEN [r EXCEPT !.uri = rw.uri] ELSE r]

\* proxy_internal up to the call of the HTTP client: the request handed to
\* the client, or the error of the rewriter
proxy_internal(cfg, r) ==
    LET uri == r.uri
        host == UriHost(uri)
    IN  IF is_ton_domain(cfg.ton_domains, host)
        THEN LET rw == rewrite_ton_uri(uri, cfg.ton_gateway)
             IN  IF rw.ok
                 THEN [ok |-> TRUE, ton |-> TRUE, new_req |-> [r EXCEPT !.uri = rw.uri]]
                 ELSE [ok |-> FALSE, ton |-> TRUE,
                       err |-> <<"Failed to parse rewritten URI: ",
                                 new_uri_str(uri, cfg.ton_gateway)>>]
        ELSE [ok |-> TRUE, ton |-> FALSE, new_req |-> r]

\* a handle_request that sends a CONNECT request down the plain-HTTP branch
\* as well
Proxy_AnyMethod ==
    /\ pc = "handle_request"
    /\ \E pi \in {proxy_internal(config, req)} :
          IF pi.ok
          THEN /\ client_calls' = Append(client_calls, pi.new_req)
               /\ pc' = "client_request"
               /\ UNCHANGED returned
          ELSE /\ returned' = Append(returned,
                                     Synthesized(BAD_GATEWAY, <<"Proxy error: ", pi.err>>))
               /\ pc' = "returned"
               /\ UNCHANGED client_calls
    /\ UNCHANGED <<config, detached, req, client_results, taskVars>>

\* the other branch of handle_request: proxy and proxy_internal until the
\* HTTP client is awaited, or until proxy turns the rewriter's error into a
\* response
Proxy ==
    /\ pc = "handle_request"
    /\ req.method # "CONNECT"
    /\ \E pi \in {proxy_internal(config, req)} :
          IF pi.ok
          THEN /\ client_calls' = Append(client_calls, pi.new_req)
               /\ pc' = "client_request"
               /\ UNCHANGED returned
          ELSE /\ returned' = Append(returned,
                                     Synthesized(BAD_GATEWAY, <<"Proxy error: ", pi.err>>))
               /\ pc' = "returned"
               /\ UNCHANGED client_calls
    /\ UNCHANGED <<config, detached, req, client_results, taskVars>>

\* the text that opens the body of the response to a failed client call
ClientFailurePrefix(cfg, r) ==
    IF is_ton_domain(cfg.ton_domains, UriHost(r.uri))
    THEN "Failed to connect to TON gateway: "
    ELSE "Failed to connect to target server: "

\* a handler that hands the request to the client once more after a failure
ClientResponds_Retries ==
    /\ pc = "client_request"
    /\ \/ \E up \in UpstreamResponses :
            /\ client_results' = Append(client_results, [ok |-> TRUE, response |-> up])
            /\ returned' = Append(returned, Relayed(up))
            /\ pc' = "returned"
            /\ UNCHANGED client_calls
       \/ \E e \in ClientErrors :
            /\ Len(client_calls) = 1
            /\ client_results' = Append(client_results, [ok |-> FALSE, err |-> e])
            /\ client_calls' = Append(client_calls, client_calls[1])
            /\ UNCHANGED <<returned, pc>>
       \/ \E e \in ClientErrors :
            /\ Len(client_calls) = 2
            /\ client_results' = Append(client_results, [ok |-> FALSE, err |-> e])
            /\ returned' = Append(returned,
                  Synthesized(BAD_GATEWAY, <<ClientFailurePrefix(config, req), e>>))
            /\ pc' = "returned"
            /\ UNCHANGED client_calls
    /\ UNCHANGED <<config, detached, req, taskVars>>

\* state.client.request(new_req).await returns
ClientResponds ==
    /\ pc = "client_request"
    /\ \/ \E up \in UpstreamResponses :
            /\ client_results' = Append(client_results, [ok |-> TRUE, response |-> up])
            /\ returned' = Append(returned, Relayed(up))
       \/ \E e \in ClientErrors :
            /\ client_results' = Append(client_results, [ok |-> FALSE, err |-> e])
            /\ returned' = Append(returned,
                  Synthesized(BAD_GATEWAY, <<ClientFailurePrefix(config, req), e>>))
    /\ pc' = "returned"
    /\ UNCHANGED <<config, detached, req, client_calls, taskVars>>

\* ------------------------------------------------------------------------
\* The task spawned by handle_connect, up to the dial of tunnel
\* ------------------------------------------------------------------------
\* hyper::upgrade::on(req).await: it resolves once the response has been
\* returned
UpgradeOn ==
    /\ task_pc = "upgrade"
    /\ pc = "returned"
    /\ \/ /\ task_pc' = "connect"
          /\ UNCHANGED task_log
       \/ /\ task_pc' = "end"
          /\ task_log' = Append(task_log, "Upgrade error")
    /\ UNCHANGED <<config, detached, handlerVars, addr, dialed, tunnel_result, relayVars>>

\* ------------------------------------------------------------------------
\* tunnel
\* ------------------------------------------------------------------------
\* the two relay directions: client_to_server and server_to_client
Dirs == {"c2s", "s2c"}

\* let mut buffer = [0; 8192]
BufSize == 8192

\* The relay never looks into a byte, so the k-th byte a source sends is
\* given a value of its own: a lost, repeated or misplaced byte shows.
ByteOf(d, k) == IF d = "c2s" THEN k ELSE 100 + k

Other(d) == IF d = "c2s" THEN "s2c" ELSE "c2s"

\* the bytes sent by the source and not yet read by the loop
Pending(d) == Drop(sent[d], Len(rd[d]))

\* a tunnel that logs a failed dial and starts the two loops all the same
TunnelConnect_RelaysAnyway ==
    /\ task_pc = "connect"
    /\ dialed' = Append(dialed, addr)
    /\ \/ /\ task_pc' = "relay"
          /\ loop_pc' = [d \in Dirs |-> "read"]
          /\ UNCHANGED <<task_log, tunnel_result>>
       \/ /\ task_pc' = "relay"
          /\ tunnel_result' = <<"Err", "connect">>
          /\ task_log' = Append(task_log, "Tunnel error")
          /\ loop_pc' = [d \in Dirs |-> "read"]
    /\ UNCHANGED <<config, detached, handlerVars, addr, sent, src_closed, rd, buffer, written,
                   shutdown, half_closed, loop_result, mark>>

\* TcpStream::connect(addr).await? at the head of tunnel; on success the two
\* streams are split and both loops stand at their first read; on failure
\* tunnel returns the error, which the task logs
TunnelConnect ==
    /\ task_pc = "connect"
    /\ dialed' = Append(dialed, addr)
    /\ \/ /\ task_pc' = "relay"
          /\ loop_pc' = [d \in Dirs |-> "read"]
          /\ UNCHANGED <<task_log, tunnel_result>>
       \/ /\ task_pc' = "end"
          /\ tunnel_result' = <<"Err", "connect">>
          /\ task_log' = Append(task_log, "Tunnel error")
          /\ UNCHANGED loop_pc
    /\ UNCHANGED <<config, detached, handlerVars, addr, sent, src_closed, rd, buffer, written,
                   shutdown, half_closed, loop_result, mark>>

\* an endpoint (the client for c2s, the destination for s2c) sends one more
\* byte towards the proxy
SourceSend(d) ==
    /\ task_pc = "relay"
    /\ ~src_closed[d]
    /\ Len(sent[d]) < MaxStream
    /\ sent' = [sent EXCEPT ![d] = Append(@, ByteOf(d, Len(@) + 1))]
    /\ UNCHANGED <<config, detached, handlerVars, task_pc, addr, dialed, task_log, tunnel_result,
                   src_closed, rd, buffer, written, shutdown, half_closed, loop_pc,
                   loop_result, mark>>

\* an endpoint closes its write side
SourceClose(d) ==
    /\ task_pc = "relay"
    /\ ~src_closed[d]
    /\ src_closed' = [src_closed EXCEPT ![d] = TRUE]
    /\ UNCHANGED <<config, detached, handlerVars, task_pc, addr, dialed, task_log, tunnel_result,
                   sent, rd, buffer, written, shutdown, half_closed, loop_pc,
                   loop_result, mark>>

\* let n = read(&mut buffer).await? returns n >= 1 bytes: at most BufSize of
\* the pending bytes, taken from the front, land in the buffer
ReadData(d) ==
    \E n \in 1..Min(BufSize, Len(Pending(d))) :
        /\ buffer' = [buffer EXCEPT ![d] = Take(Pending(d), n)]
        /\ rd' = [rd EXCEPT ![d] = @ \o Take(Pending(d), n)]
        /\ loop_pc' = [loop_pc EXCEPT ![d] = "write"]
        /\ UNCHANGED <<loop_result, mark>>

\* the read returns 0, the end of the stream: if n == 0 { break; }
ReadEof(d) ==
    /\ Pending(d) = <<>>
    /\ src_closed[d]
    /\ loop_pc' = [loop_pc EXCEPT ![d] = "shutdown"]
    /\ mark' = [mark EXCEPT ![d] = Len(sent[Other(d)])]
    /\ UNCHANGED <<buffer, rd, loop_result>>

\* a failed read that ends both loops, as try_join! over the two loops would
ReadError_AbortsOther(d) ==
    /\ loop_pc' = [x \in Dirs |-> "done"]
    /\ loop_result' = [x \in Dirs |-> IF x = d THEN "read error"
                                       ELSE IF loop_pc[x] = "done" THEN loop_result[x]
                                       ELSE "cancelled"]
    /\ UNCHANGED <<buffer, rd, mark>>

\* the read fails and ? ends the loop with the error
ReadError(d) ==
    /\ loop_pc' = [loop_pc EXCEPT ![d] = "done"]
    /\ loop_result' = [loop_result EXCEPT ![d] = "read error"]
    /\ UNCHANGED <<buffer, rd, mark>>

LoopRead(d) ==
    /\ task_pc = "relay"
    /\ loop_pc[d] = "read"
    /\ (ReadData(d) \/ ReadEof(d) \/ ReadError(d))
    /\ UNCHANGED <<config, detached, handlerVars, task_pc, addr, dialed, task_log, tunnel_result,
                   sent, src_closed, written, shutdown, half_closed>>

\* a write_all that sends the chunk last byte first
RECURSIVE Reverse(_)
Reverse(q) == IF q = <<>> THEN <<>> ELSE Append(Reverse(Drop(q, 1)), q[1])

LoopWrite_Reversed(d) ==
    /\ task_pc = "relay"
    /\ loop_pc[d] = "write"
    /\ written' = [written EXCEPT ![d] = @ \o Reverse(buffer[d])]
    /\ loop_pc' = [loop_pc EXCEPT ![d] = "read"]
    /\ UNCHANGED <<config, detached, handlerVars, task_pc, addr, dialed, task_log, tunnel_result,
                   sent, src_closed, rd, buffer, shutdown, half_closed, mark, loop_result>>

\* a loop that leaves by break when a write fails, and so goes on to the
\* shutdown
LoopWrite_BreaksOnError(d) ==
    /\ task_pc = "relay"
    /\ loop_pc[d] = "write"
    /\ \/ /\ written' = [written EXCEPT ![d] = @ \o buffer[d]]
          /\ loop_pc' = [loop_pc EXCEPT ![d] = "read"]
          /\ UNCHANGED loop_result
       \/ \E k \in 0..(Len(buffer[d]) - 1) :
            /\ written' = [written EXCEPT ![d] = @ \o Take(buffer[d], k)]
            /\ loop_pc' = [loop_pc EXCEPT ![d] = "shutdown"]
            /\ UNCHANGED loop_result
    /\ UNCHANGED <<config, detached, handlerVars, task_pc, addr, dialed, task_log, tunnel_result,
                   sent, src_closed, rd, buffer, shutdown, half_closed, mark>>

\* write_all(&buffer[..n]).await?: every byte of the chunk is written in
\* order, or the write fails after some of them
LoopWrite(d) ==
    /\ task_pc = "relay"
    /\ loop_pc[d] = "write"
    /\ \/ /\ written' = [written EXCEPT ![d] = @ \o buffer[d]]
          /\ loop_pc' = [loop_pc EXCEPT ![d] = "read"]
          /\ UNCHANGED loop_result
       \/ \E k \in 0..(Len(buffer[d]) - 1) :
            /\ written' = [written EXCEPT ![d] = @ \o Take(buffer[d], k)]
            /\ loop_pc' = [loop_pc EXCEPT ![d] = "done"]
            /\ loop_result' = [loop_result EXCEPT ![d] = "write error"]
    /\ UNCHANGED <<config, detached, handlerVars, task_pc, addr, dialed, task_log, tunnel_result,
                   sent, src_closed, rd, buffer, shutdown, half_closed, mark>>

\* a shutdown step that also ends the opposite loop, as a select over the
\* two loops would
LoopShutdown_CancelsOther(d) ==
    /\ task_pc = "relay"
    /\ loop_pc[d] = "shutdown"
    /\ shutdown' = [shutdown EXCEPT ![d] = TRUE]
    /\ half_closed' = [half_closed EXCEPT ![d] = TRUE]
    /\ loop_pc' = [x \in Dirs |-> "done"]
    /\ loop_result' = [x \in Dirs |-> IF x = d \/ loop_result[x] = "none" THEN "Ok"
                                       ELSE loop_result[x]]
    /\ UNCHANGED <<config, detached, handlerVars, task_pc, addr, dialed, task_log, tunnel_result,
                   sent, src_closed, rd, buffer, written, mark>>

\* shutdown().await? on the peer's write end, then Ok(())
LoopShutdown(d) ==
    /\ task_pc = "relay"
    /\ loop_pc[d] = "shutdown"
    /\ shutdown' = [shutdown EXCEPT ![d] = TRUE]
    /\ loop_pc' = [loop_pc EXCEPT ![d] = "done"]
    /\ \/ /\ half_closed' = [half_closed EXCEPT ![d] = TRUE]
          /\ loop_result' = [loop_result EXCEPT ![d] = "Ok"]
       \/ /\ loop_result' = [loop_result EXCEPT ![d] = "shutdown error"]
          /\ UNCHANGED half_closed
    /\ UNCHANGED <<config, detached, handlerVars, task_pc, addr, dialed, task_log, tunnel_result,
                   sent, src_closed, rd, buffer, written, mark>>

client_to_server == LoopRead("c2s") \/ LoopWrite("c2s") \/ LoopShutdown("c2s")

\* a server_to_client that is run after client_to_server has ended, as two
\* awaits one after the other would
server_to_client_AfterClient ==
    /\ loop_pc["c2s"] = "done"
    /\ (LoopRead("s2c") \/ LoopWrite("s2c") \/ LoopShutdown("s2c"))

server_to_client == LoopRead("s2c") \/ LoopWrite("s2c") \/ LoopShutdown("s2c")

\* client_result?; server_result?; Ok(())
JoinResult(client_result, server_result) ==
    IF client_result # "Ok" THEN <<"Err", "c2s", client_result>>
    ELSE IF server_result # "Ok" THEN <<"Err", "s2c", server_result>>
    ELSE <<"Ok">>

\* a tunnel that returns as soon as one of the two loops has ended, as a
\* select over the two loops would
TunnelJoin_FirstDone ==
    /\ task_pc = "relay"
    /\ \E d \in Dirs : loop_pc[d] = "done"
    /\ LET res == JoinResult(loop_result["c2s"], loop_result["s2c"])
       IN  /\ tunnel_result' = res
           /\ task_log' = IF res[1] = "Err" THEN Append(task_log, "Tunnel error")
                          ELSE task_log
    /\ task_pc' = "end"
    /\ UNCHANGED <<config, detached, handlerVars, addr, dialed, relayVars>>

\* tokio::join! resolves once both loops have ended; tunnel returns, its
\* streams are dropped and the task logs an error result
TunnelJoin ==
    /\ task_pc = "relay"
    /\ \A d \in Dirs : loop_pc[d] = "done"
    /\ LET res == JoinResult(loop_result["c2s"], loop_result["s2c"])
       IN  /\ tunnel_result' = res
           /\ task_log' = IF res[1] = "Err" THEN Append(task_log, "Tunnel error")
                          ELSE task_log
    /\ task_pc' = "end"
    /\ UNCHANGED <<config, detached, handlerVars, addr, dialed, relayVars>>

\* ------------------------------------------------------------------------
\* The server: one handle_request per inbound request, tasks left detached
\* ------------------------------------------------------------------------
\* service_fn calls handle_request for the next inbound request (of this or
\* of another connection). The handle of the task spawned for the request
\* before was dropped at the spawn, so that task goes on by itself: from here
\* on only its position is kept, in detached. The variables of the handler
\* and of the task start afresh for the new request.
Accept ==
    /\ pc = "returned"
    /\ task_pc = "none" \/ Len(detached) < MaxTunnels
    /\ detached' = IF task_pc = "none" THEN detached ELSE Append(detached, task_pc)
    /\ req' \in Requests
    /\ pc' = "handle_request"
    /\ returned' = <<>>
    /\ client_calls' = <<>>
    /\ client_results' = <<>>
    /\ task_pc' = "none"
    /\ addr' = <<>>
    /\ dialed' = <<>>
    /\ task_log' = <<>>
    /\ tunnel_result' = <<>>
    /\ sent' = [d \in Dirs |-> <<>>]
    /\ src_closed' = [d \in Dirs |-> FALSE]
    /\ rd' = [d \in Dirs |-> <<>>]
    /\ buffer' = [d \in Dirs |-> <<>>]
    /\ written' = [d \in Dirs |-> <<>>]
    /\ shutdown' = [d \in Dirs |-> FALSE]
    /\ half_closed' = [d \in Dirs |-> FALSE]
    /\ loop_pc' = [d \in Dirs |-> "idle"]
    /\ loop_result' = [d \in Dirs |-> "none"]
    /\ mark' = [d \in Dirs |-> 0]
    /\ UNCHANGED config

\* a detached task moves on: the upgrade resolves or fails, the dial succeeds
\* or fails, the relay ends
DetachedStep(i) ==
    /\ i \in DOMAIN detached
    /\ \/ /\ detached[i] = "upgrade"
          /\ detached' = [detached EXCEPT ![i] = "connect"]
       \/ /\ detached[i] = "connect"
          /\ detached' = [detached EXCEPT ![i] = "relay"]
       \/ /\ detached[i] \in {"upgrade", "connect", "relay"}
          /\ detached' = [detached EXCEPT ![i] = "end"]
    /\ UNCHANGED <<config, handlerVars, taskVars>>

\* ------------------------------------------------------------------------
\* Specifications
\* ------------------------------------------------------------------------
Configs(lists, gateways) ==
    { [ton_domains |-> l, ton_gateway |-> g] : l \in lists, g \in gateways }

InitWith(cfgs, reqs) ==
    /\ config \in cfgs
    /\ \/ /\ reqs = {}
          /\ req = NoReq
          /\ pc = "idle"
       \/ /\ req \in reqs
          /\ pc = "handle_request"
    /\ returned = <<>>
    /\ client_calls = <<>>
    /\ client_results = <<>>
    /\ task_pc = "none"
    /\ addr = <<>>
    /\ dialed = <<>>
    /\ task_log = <<>>
    /\ tunnel_result = <<>>
    /\ sent = [d \in Dirs |-> <<>>]
    /\ src_closed = [d \in Dirs |-> FALSE]
    /\ rd = [d \in Dirs |-> <<>>]
    /\ buffer = [d \in Dirs |-> <<>>]
    /\ written = [d \in Dirs |-> <<>>]
    /\ shutdown = [d \in Dirs |-> FALSE]
    /\ half_closed = [d \in Dirs |-> FALSE]
    /\ loop_pc = [d \in Dirs |-> "idle"]
    /\ loop_result = [d \in Dirs |-> "none"]
    /\ mark = [d \in Dirs |-> 0]
    /\ detached = <<>>

\* the dispatcher: one process with its configuration, one inbound request
Init == InitWith(Configs(SampleSuffixLists, SampleGateways), {})

Next == Receive \/ HandleConnect \/ Proxy \/ ClientResponds \/ UpgradeOn \/ TunnelConnect

Spec == Init /\ [][Next]_vars

\* the handler is polled until it returns, and the HTTP client answers or
\* fails in the end
SpecLive ==
    Spec /\ WF_vars(HandleConnect) /\ WF_vars(Proxy) /\ WF_vars(ClientResponds)

\* the plain-HTTP path over every host and every suffix list
InitClassifier ==
    InitWith(Configs(SuffixLists, {<<"https://", "g">>}),
             PlainRequests(AbsoluteUris(Hosts, {<<"/", "a">>}, {NoQuery})
                           \cup OriginUris({<<"/", "a">>}, {NoQuery})))

NextProxy == Proxy \/ ClientResponds

SpecClassifier == InitClassifier /\ [][NextProxy]_vars

\* the plain-HTTP path over every target and every gateway base, with a
\* suffix list that sends every host to the gateway
InitRewrite ==
    InitWith(Configs({<<<<>>>>}, Gateways),
             { MkRequest([method |-> "GET", headers |-> "h1", body |-> "b1"], u) :
                 u \in AbsoluteUris(Hosts, Paths, Queries) \cup OriginUris(Paths, Queries) })

SpecRewrite == InitRewrite /\ [][NextProxy]_vars

\* the server over many requests: the handler takes one request after the
\* other while the tasks of earlier CONNECT requests are still running
NextServe ==
    \/ Receive
    \/ Accept
    \/ HandleConnect
    \/ Proxy
    \/ ClientResponds
    \/ UpgradeOn
    \/ TunnelConnect
    \/ \E i \in 1..MaxTunnels : DetachedStep(i)

SpecServe == Init /\ [][NextServe]_vars

\* one CONNECT session: a CONNECT request with an authority has arrived; the
\* handler answers it, the spawned task upgrades the connection, dials and
\* relays
InitTunnel ==
    InitWith(Configs({<<<<"t">>>>}, {<<"https://", "g">>}),
             { [method |-> "CONNECT", uri |-> u, headers |-> "h1", body |-> "b0"] :
                 u \in AuthorityUris({<<"t">>}) })

NextTunnel ==
    \/ HandleConnect
    \/ UpgradeOn
    \/ TunnelConnect
    \/ \E d \in Dirs : SourceSend(d)
    \/ \E d \in Dirs : SourceClose(d)
    \/ client_to_server
    \/ server_to_client
    \/ TunnelJoin

SpecTunnel == InitTunnel /\ [][NextTunnel]_vars

\* both loops are polled until they end: a pending read returns bytes, zero
\* bytes or an error, a pending write or shutdown completes or fails, and
\* the join resolves
SpecTunnelLive ==
    SpecTunnel /\ WF_vars(client_to_server) /\ WF_vars(server_to_client) /\ WF_vars(TunnelJoin)

\* ------------------------------------------------------------------------
\* Properties
\* ------------------------------------------------------------------------
IsConnect == req.method = "CONNECT"

HasAuthority == req.uri.authority # NoAuthority

DialFailed == tunnel_result = <<"Err", "connect">>

\* C1: a CONNECT request with an authority whose outbound dial fails is
\* answered with status 502 and never with 200. (The code answers 200 before
\* it dials: the dial is made by the spawned task, after the response.)
C1_DialFailureAnswered502 ==
    (IsConnect /\ HasAuthority /\ DialFailed) =>
        /\ Len(returned) = 1
        /\ returned[1].response.status = BAD_GATEWAY
        /\ returned[1].response.status # OK

\* C2: in each direction the bytes written to the peer are a prefix of the
\* bytes read from the source, which are a prefix of the bytes the source
\* sent: nothing is changed, dropped, repeated or reordered, whatever the
\* sizes of the reads and the interleaving of the two loops.
C2_WrittenIsPrefixOfRead ==
    \A d \in Dirs :
        /\ IsPrefix(written[d], rd[d])
        /\ IsPrefix(rd[d], sent[d])
        /\ Len(buffer[d]) <= BufSize
        /\ loop_pc[d] = "write" => rd[d] = written[d] \o buffer[d]

\* both directions have relayed, one of them every byte of a stream of full
\* length that was read in more than one chunk
C2_Witness ==
    /\ Len(sent["c2s"]) = MaxStream
    /\ written["c2s"] = sent["c2s"]
    /\ Len(buffer["c2s"]) < MaxStream
    /\ Len(written["s2c"]) >= 2
    /\ loop_pc["s2c"] = "write"

\* the loop of direction d has read its end of stream
SawEof(d) ==
    \/ loop_pc[d] = "shutdown"
    \/ loop_pc[d] = "done" /\ loop_result[d] \in {"Ok", "shutdown error"}

C3_State ==
    \A d \in Dirs :
        \* the end of stream is read after every byte of the source was relayed
        /\ SawEof(d) => src_closed[d] /\ rd[d] = sent[d] /\ written[d] = sent[d]
        \* the loop ends only after the shutdown of the peer's write end
        /\ (loop_pc[d] = "done" /\ SawEof(d)) => shutdown[d]
        /\ loop_result[d] = "Ok" => half_closed[d]
        \* the opposite loop is still running and can read what is pending
        /\ (SawEof(d) /\ task_pc = "relay" /\ loop_pc[Other(d)] = "read"
                /\ Pending(Other(d)) # <<>>)
             => ENABLED (LoopRead(Other(d)) /\ loop_pc'[Other(d)] = "write")

C3_Step ==
    \A d \in Dirs :
        \* after its end of stream the loop reads and writes no more
        /\ SawEof(d) =>
              /\ rd'[d] = rd[d]
              /\ written'[d] = written[d]
              /\ loop_pc'[d] \in {"shutdown", "done"}
        \* a step of one loop leaves the other loop where it is
        /\ loop_pc'[d] # loop_pc[d] /\ loop_pc[d] # "idle" =>
              /\ loop_pc'[Other(d)] = loop_pc[Other(d)]
              /\ loop_result'[Other(d)] = loop_result[Other(d)]
              /\ rd'[Other(d)] = rd[Other(d)]
              /\ written'[Other(d)] = written[Other(d)]

\* C3: half-close. When one side closes its write side (the loop reading from
\* it gets zero bytes), that loop stops reading, shuts down the write end of
\* the opposite side and ends; the opposite loop is not stopped and every
\* byte its source sends afterwards is still delivered, until that source
\* closes as well. The same holds with the two sides exchanged.
C3_HalfClose == []C3_State /\ [][C3_Step]_vars

\* the client has half-closed and its loop has ended with the shutdown, and a
\* byte the destination sent after that has reached the client; later the
\* destination closes and its loop ends cleanly as well
C3_Witness ==
    /\ loop_pc["c2s"] = "done"
    /\ half_closed["c2s"]
    /\ Len(written["s2c"]) > mark["c2s"]
    /\ loop_result["s2c"] = "Ok"

\* ---- the plain-HTTP path ----
HostOf == UriHost(req.uri)

\* s is a suffix of h: h is some text followed by s
IsSuffixOf(s, h) == \E k \in 0..Len(h) : h = Take(h, k) \o s

\* some configured suffix is a suffix of the request's host
Matches == \E i \in DOMAIN config.ton_domains : IsSuffixOf(config.ton_domains[i], HostOf)

\* g without its trailing slashes: the prefix of g that ends in no slash and
\* is followed by slashes only
TrimTrailingSlash(g) ==
    CHOOSE p \in { Take(g, k) : k \in 0..Len(g) } :
        /\ p = <<>> \/ p[Len(p)] # "/"
        /\ \A i \in (Len(p) + 1)..Len(g) : g[i] = "/"

\* trim_trailing_slash(gw) + "/" + host + path + ("?" + query if present)
ComposedText(uri, gw) ==
    TrimTrailingSlash(gw) \o <<"/">> \o UriHost(uri) \o UriPath(uri)
    \o (IF uri.query = NoQuery THEN <<>> ELSE <<"?">> \o Unwrap(uri.query))

Dispatched == pc # "idle" /\ pc # "handle_request"

\* the request handed to the HTTP client targets the gateway, not the
\* original URI
GatewayRouted ==
    /\ Len(client_calls) = 1
    /\ client_calls[1].uri # req.uri
    /\ client_calls[1].uri = ParseUri(ComposedText(req.uri, config.ton_gateway)).uri

Failure(r) == r.kind = "Ok" /\ r.origin = "core failure" /\ r.response.status = BAD_GATEWAY

C4_State ==
    /\ Len(returned) <= 1
    /\ (pc = "returned") <=> (Len(returned) = 1)
    /\ \A i \in 1..Len(returned) :
          /\ returned[i].kind = "Ok"
          /\ returned[i].origin = "core failure" => returned[i].response.status = BAD_GATEWAY
          /\ returned[i].origin = "core upgrade" =>
                IsConnect /\ HasAuthority /\ returned[i].response.status = OK
          /\ returned[i].origin = "upstream" =>
                /\ ~IsConnect
                /\ Len(client_results) = 1
                /\ client_results[1].ok
    /\ pc = "returned" =>
          /\ (IsConnect /\ ~HasAuthority) => Failure(returned[1])
          /\ (~IsConnect /\ client_calls = <<>>) => Failure(returned[1])
          /\ (~IsConnect /\ Len(client_results) = 1 /\ ~client_results[1].ok)
                => Failure(returned[1])

\* C4: handle_request returns exactly one response and never an error, for
\* CONNECT and for every other method, whatever the collaborators do: a
\* missing authority, a failed rewrite and a failed client call each give a
\* response made by the core with status 502, and the core makes no failure
\* response with another status.
C4_DispatcherTotal == []C4_State /\ ((pc = "handle_request") ~> (pc = "returned"))

\* a client call has failed and the handler has returned its one response
C4_Witness ==
    /\ pc = "returned"
    /\ ~IsConnect
    /\ Len(client_results) = 1
    /\ ~client_results[1].ok
    /\ Len(returned) = 1

\* C5: the classifier answers true exactly when some configured suffix is a
\* suffix of the host (byte by byte, with regard to case and without regard
\* to labels), so never for an empty list; and a request that is not CONNECT
\* goes through the gateway exactly when the classifier answers true.
C5_ClassifierIsSuffixMatch ==
    /\ is_ton_domain(config.ton_domains, HostOf) <=> Matches
    /\ config.ton_domains = <<>> => ~is_ton_domain(config.ton_domains, HostOf)
    /\ Dispatched =>
          /\ Len(client_calls) = 1
          /\ GatewayRouted <=> Matches
          /\ ~Matches => client_calls[1] = req

\* the second suffix of the list, and not the first, is a proper suffix of
\* the host and the request has gone to the gateway
C5_Witness ==
    /\ Dispatched
    /\ Len(config.ton_domains) = 2
    /\ ~IsSuffixOf(config.ton_domains[1], HostOf)
    /\ Len(config.ton_domains[1]) = Len(config.ton_domains[2])
    /\ IsSuffixOf(config.ton_domains[2], HostOf)
    /\ 0 < Len(config.ton_domains[2])
    /\ Len(config.ton_domains[2]) < Len(HostOf)
    /\ GatewayRouted

HasEmptySuffix == \E i \in DOMAIN config.ton_domains : config.ton_domains[i] = <<>>

\* C6 as stated: for an empty host (a URI without a host included) the
\* classifier answers false for every suffix list and the request never goes
\* through the gateway.
C6_EmptyHostNeverMatches ==
    HostOf = <<>> =>
        /\ ~is_ton_domain(config.ton_domains, HostOf)
        /\ Dispatched => ~GatewayRouted

\* C6 amended: for an empty host the classifier answers false for every
\* suffix list without an empty suffix, and then the request never goes
\* through the gateway; with an empty suffix in the list it answers true.
C6_EmptyHostMatchesOnlyEmptySuffix ==
    HostOf = <<>> =>
        /\ is_ton_domain(config.ton_domains, HostOf) <=> HasEmptySuffix
        /\ (~HasEmptySuffix /\ Dispatched) =>
              /\ ~GatewayRouted
              /\ client_calls = <<req>>

\* a request without a host has been forwarded unchanged under a list of two
\* suffixes, none of them empty
C6_Witness ==
    /\ HostOf = <<>>
    /\ req.uri.authority = NoAuthority
    /\ Len(config.ton_domains) = 2
    /\ ~HasEmptySuffix
    /\ Dispatched
    /\ client_calls = <<req>>

\* C7: a successful rewrite yields exactly trim_trailing_slash(gw) + "/" +
\* host + path + ("?" + query if present), for every URI and every gateway
\* base; the original scheme does not show in it, and gateway bases that
\* differ in trailing slashes only give the same result.
C7_RewriteIsComposition ==
    (Dispatched /\ Matches /\ Len(client_calls) = 1) =>
        /\ UriToString(client_calls[1].uri) = ComposedText(req.uri, config.ton_gateway)
        /\ \A g \in Gateways :
              TrimTrailingSlash(g) = TrimTrailingSlash(config.ton_gateway) =>
                  rewrite_ton_uri(req.uri, g).uri = client_calls[1].uri

\* C8: for a request that is not CONNECT and whose host matches a suffix,
\* the request handed to the HTTP client has the gateway-composed URI as its
\* target, not the original one, and the method, headers and body of the
\* original request.
C8_GatewayRequest ==
    (~IsConnect /\ Matches /\ Len(client_calls) >= 1) =>
        /\ GatewayRouted
        /\ client_calls[1].method = req.method
        /\ client_calls[1].headers = req.headers
        /\ client_calls[1].body = req.body

\* a POST for a matching host is with the HTTP client
C8_Witness ==
    /\ pc = "client_request"
    /\ req.method = "POST"
    /\ Matches
    /\ HostOf # <<>>
    /\ Len(client_calls) = 1

\* C9: for a request that is not CONNECT and whose host matches no suffix,
\* the request handed to the HTTP client is the inbound request, and when the
\* client succeeds the response returned is the upstream response, with its
\* status, headers and body.
C9_DirectPathUnchanged ==
    (~IsConnect /\ ~Matches /\ Dispatched) =>
        /\ client_calls = <<req>>
        /\ (pc = "returned" /\ client_results[1].ok) =>
              /\ Len(returned) = 1
              /\ returned[1].kind = "Ok"
              /\ returned[1].response = client_results[1].response

\* an upstream response with status 500 has come back for a host that
\* matches none of the suffixes of a list that is not empty
C9_Witness ==
    /\ pc = "returned"
    /\ ~IsConnect
    /\ config.ton_domains # <<>>
    /\ ~Matches
    /\ HostOf # <<>>
    /\ Len(client_results) = 1
    /\ client_results[1].ok
    /\ client_results[1].response.status = 500

RewriteFails == ~ParseUri(ComposedText(req.uri, config.ton_gateway)).ok

\* C10: when the host matches a suffix and the gateway-composed text does not
\* parse as a URI, the handler returns a 502 response at once, the HTTP
\* client is never called for the request, and the handler ends normally.
C10_RewriteFailure ==
    (~IsConnect /\ Matches /\ RewriteFails /\ Dispatched) =>
        /\ pc = "returned"
        /\ client_calls = <<>>
        /\ client_results = <<>>
        /\ Len(returned) = 1
        /\ Failure(returned[1])

\* the handler has returned for a matching host under a gateway base that
\* has no scheme
C10_Witness ==
    /\ pc = "returned"
    /\ ~IsConnect
    /\ Matches
    /\ RewriteFails
    /\ Len(returned) = 1

\* ---- CONNECT without an authority ----
\* C11: a CONNECT request whose target has no authority is answered with a
\* 502 response whose body names the error; for such a request no task is
\* spawned, no address is dialed and the connection is not upgraded.
C11_MissingAuthority ==
    (IsConnect /\ ~HasAuthority) =>
        /\ task_pc = "none"
        /\ addr = <<>>
        /\ dialed = <<>>
        /\ task_log = <<>>
        /\ \A d \in Dirs : loop_pc[d] = "idle"
        /\ client_calls = <<>>
        /\ pc \in {"handle_request", "returned"}
        /\ pc = "returned" =>
              /\ Len(returned) = 1
              /\ Failure(returned[1])
              /\ returned[1].response.body
                    = <<"CONNECT error: ", "CONNECT request missing authority">>

\* the handler has answered a CONNECT request whose target is a path
C11_Witness ==
    /\ IsConnect
    /\ ~HasAuthority
    /\ req.uri.path # <<>>
    /\ pc = "returned"
    /\ Len(returned) = 1
    /\ returned[1].response.status = BAD_GATEWAY

\* ---- a failed client call ----
ClientFailed == Len(client_results) >= 1 /\ ~client_results[1].ok

\* C12: when the HTTP client fails for a request that is not CONNECT, on the
\* gateway path and on the direct path alike, the handler returns a 502
\* response whose body carries the text of the client's error, and the
\* client is called once for the request, never a second time.
C12_ClientFailure ==
    /\ Len(client_calls) <= 1
    /\ Len(client_results) <= Len(client_calls)
    /\ (~IsConnect /\ ClientFailed) =>
          /\ pc = "returned"
          /\ Len(client_calls) = 1
          /\ Len(client_results) = 1
          /\ Len(returned) = 1
          /\ Failure(returned[1])
          /\ \E i \in DOMAIN returned[1].response.body :
                returned[1].response.body[i] = client_results[1].err
          /\ returned[1].response.body[1] =
                (IF Matches THEN "Failed to connect to TON gateway: "
                            ELSE "Failed to connect to target server: ")

\* the client has failed for a request that went to the gateway
C12_Witness ==
    /\ ~IsConnect
    /\ Matches
    /\ GatewayRouted
    /\ ClientFailed
    /\ pc = "returned"
    /\ Len(returned) = 1

\* ---- the end of a tunnel session ----
\* the session has been in Tunneling: the dial succeeded and the loops began
Tunneled == \A d \in Dirs : loop_pc[d] # "idle"

\* tunnel has returned after Tunneling and its streams are released
Closed == task_pc = "end" /\ Tunneled

IOErrors == {"read error", "write error", "shutdown error"}

\* the loop of direction d has ended, by a clean end of stream or by an error
Finished(d) == loop_pc[d] = "done" /\ loop_result[d] \in {"Ok"} \cup IOErrors

C13_State ==
    Closed =>
        /\ \A d \in Dirs : Finished(d)
        /\ tunnel_result # <<>>
        /\ ~ENABLED (client_to_server \/ server_to_client)

C13_Step ==
    (task_pc = "relay" /\ task_pc' = "end") => \A d \in Dirs : Finished(d)

\* C13: a tunnel session is Closed (tunnel has returned, the streams are
\* released) only when both relay loops have ended, each by a clean end of
\* stream or by an I/O error; the step that closes the session is taken from
\* a state where both have ended, and in no Closed state can a loop still
\* read or write.
C13_ClosedAfterBothLoops == []C13_State /\ [][C13_Step]_vars

\* the session is Closed after one loop ended cleanly, having relayed bytes,
\* and the other by a failed read
C13_Witness ==
    /\ Closed
    /\ loop_result["c2s"] = "Ok"
    /\ Len(written["c2s"]) >= 1
    /\ loop_result["s2c"] = "read error"

\* ---- an I/O error in one direction ----
\* the loop of direction d has ended by a failed read, write or shutdown
Failed(d) == loop_pc[d] = "done" /\ loop_result[d] \in IOErrors

C14_State ==
    \A d \in Dirs :
        (Failed(d) /\ loop_pc[Other(d)] # "done") =>
            \* the session is not torn down and the other loop still runs
            /\ task_pc = "relay"
            /\ loop_pc[Other(d)] \in {"read", "write", "shutdown"}
            /\ loop_result[Other(d)] = "none"
            \* it reads what is pending, writes what it has read, and meets its
            \* own end of stream
            /\ (loop_pc[Other(d)] = "read" /\ Pending(Other(d)) # <<>>) =>
                  ENABLED (LoopRead(Other(d)) /\ loop_pc'[Other(d)] = "write")
            /\ loop_pc[Other(d)] = "write" =>
                  ENABLED (LoopWrite(Other(d))
                           /\ written'[Other(d)] = written[Other(d)] \o buffer[Other(d)])
            /\ (loop_pc[Other(d)] = "read" /\ Pending(Other(d)) = <<>>
                    /\ src_closed[Other(d)]) =>
                  ENABLED (LoopRead(Other(d)) /\ loop_pc'[Other(d)] = "shutdown")

C14_Step ==
    \A d \in Dirs :
        \* the step in which direction d fails leaves the other loop as it is
        /\ (~Failed(d) /\ Failed(d)') =>
              /\ loop_pc'[Other(d)] = loop_pc[Other(d)]
              /\ loop_result'[Other(d)] = loop_result[Other(d)]
              /\ rd'[Other(d)] = rd[Other(d)]
              /\ written'[Other(d)] = written[Other(d)]
              /\ buffer'[Other(d)] = buffer[Other(d)]
              /\ task_pc' = task_pc
        \* after that the other loop ends by its own end of stream, having
        \* relayed every byte of its source, or by its own error
        /\ (Failed(d) /\ loop_pc[Other(d)] # "done" /\ loop_pc'[Other(d)] = "done") =>
              \/ /\ loop_pc[Other(d)] = "shutdown"
                 /\ loop_result'[Other(d)] \in {"Ok", "shutdown error"}
                 /\ written[Other(d)] = sent[Other(d)]
              \/ /\ loop_pc[Other(d)] = "read"
                 /\ loop_result'[Other(d)] = "read error"
              \/ /\ loop_pc[Other(d)] = "write"
                 /\ loop_result'[Other(d)] = "write error"

\* C14: a failed read, write or shutdown in one direction ends the loop of
\* that direction only. The loop of the other direction is not cancelled: it
\* stays where it was, the session stays open, and it goes on reading and
\* writing every byte it reads until its own end of stream or its own error.
C14_ErrorEndsOneDirection == []C14_State /\ [][C14_Step]_vars

\* the client direction has failed in a write before anything was relayed
\* to the client; the other direction has since written two bytes and holds
\* a third it has read
C14_Witness ==
    /\ loop_result["c2s"] = "write error"
    /\ loop_pc["c2s"] = "done"
    /\ loop_pc["s2c"] = "write"
    /\ Len(written["s2c"]) >= 2
    /\ buffer["s2c"] # <<>>
    /\ task_pc = "relay"

\* ---- the result of a tunnel session ----
\* the result tunnel returned carries the error of direction d
Reports(d) ==
    /\ tunnel_result # <<>>
    /\ tunnel_result[1] = "Err"
    /\ \E i \in 2..(Len(tunnel_result) - 1) :
          tunnel_result[i] = d /\ tunnel_result[i + 1] = loop_result[d]

\* C15: the result of a tunnel session is reported once, after both loops
\* have ended; when both directions failed it carries both errors, when one
\* failed it carries that error, and when none failed it is success. (The
\* code returns the client direction's error alone when both failed: the
\* other error is dropped by client_result? before server_result? is read.)
C15_ResultCombinesErrors ==
    /\ Len(task_log) <= 1
    /\ (Tunneled /\ tunnel_result # <<>>) => \A d \in Dirs : Finished(d)
    /\ Closed =>
          /\ \A d \in Dirs : Failed(d) => Reports(d)
          /\ (\A d \in Dirs : ~Failed(d)) => tunnel_result = <<"Ok">>
          /\ (tunnel_result[1] = "Err") <=> (Len(task_log) = 1)

\* ---- a failed dial ----
C16_State ==
    DialFailed =>
        /\ task_pc = "end"
        /\ ~Tunneled
        /\ \A d \in Dirs :
              /\ loop_pc[d] = "idle"
              /\ loop_result[d] = "none"
              /\ rd[d] = <<>>
              /\ buffer[d] = <<>>
              /\ written[d] = <<>>
              /\ ~shutdown[d]
        /\ Len(dialed) = 1
        /\ ~ENABLED (client_to_server \/ server_to_client \/ TunnelJoin)

C16_Step ==
    /\ (~DialFailed /\ DialFailed') => (task_pc = "connect" /\ task_pc' = "end")
    /\ DialFailed => (task_pc' = "end" /\ DialFailed')

\* C16: when the outbound dial of a CONNECT session fails the session ends
\* without Tunneling: it goes from Connecting straight to its end and stays
\* there, neither relay loop starts, and the relay reads no byte from the
\* client stream and writes none to it.
C16_DialFailureEndsSession == []C16_State /\ [][C16_Step]_vars

\* the dial of the requested address has failed after the handler answered
C16_Witness ==
    /\ DialFailed
    /\ IsConnect
    /\ dialed = <<addr>>
    /\ task_log = <<"Tunnel error">>
    /\ pc = "returned"

\* ---- the handler and the tunnels ----
\* the number of tunnels in Tunneling: the tasks of earlier requests and the
\* task of this request
Tunneling ==
    Cardinality({ i \in DOMAIN detached : detached[i] = "relay" })
    + (IF task_pc = "relay" THEN 1 ELSE 0)

C17_State ==
    \* while the task of a CONNECT request upgrades, dials or relays, the
    \* handler has already returned the 200 response
    /\ task_pc \in {"upgrade", "connect", "relay"} =>
          /\ IsConnect
          /\ pc = "returned"
          /\ Len(returned) = 1
          /\ returned[1].origin = "core upgrade"
          /\ returned[1].response.status = OK
    \* however many tunnels are open, the handler can take its next step and
    \* the server its next request
    /\ pc = "handle_request" => ENABLED (HandleConnect \/ Proxy)
    /\ pc = "client_request" => ENABLED ClientResponds
    /\ (pc = "returned" /\ task_pc = "none") => ENABLED Accept
    /\ Len(detached) <= MaxTunnels

C17_Step ==
    \* the handler returns in the step that spawns the task: nothing is
    \* upgraded, dialed or relayed before the response
    /\ (pc = "handle_request" /\ IsConnect /\ HasAuthority /\ pc' # pc) =>
          /\ pc' = "returned"
          /\ task_pc' = "upgrade"
          /\ dialed' = <<>>
          /\ detached' = detached
    \* a step of a detached task changes nothing of the handler
    /\ (detached' # detached /\ Len(detached') = Len(detached)) =>
          UNCHANGED <<req, pc, returned, client_calls, client_results>>
    \* a step of the handler moves no task
    /\ (pc' # pc /\ pc # "returned") =>
          /\ detached' = detached
          /\ task_pc' = task_pc \/ (task_pc = "none" /\ task_pc' = "upgrade")

\* C17: for a CONNECT request the handler returns its response without
\* waiting for the tunnel; the upgrade, the dial and the relay run in the
\* spawned task. The handler ends, and the next requests are taken and
\* answered, while tunnels are in Tunneling, whatever their number.
C17_HandlerDetached == []C17_State /\ [][C17_Step]_vars

\* a request that is not CONNECT has been answered by the upstream server
\* while the tasks of MaxTunnels earlier CONNECT requests are all relaying
C17_Witness ==
    /\ ~IsConnect
    /\ pc = "returned"
    /\ Len(returned) = 1
    /\ returned[1].origin = "upstream"
    /\ Len(detached) = MaxTunnels
    /\ Tunneling = MaxTunnels

\* ---- the end of the relay ----
\* a loop that has not ended can take its step wherever the other loop
\* stands: with bytes pending it reads them, with a chunk read it writes it
C18_State ==
    /\ (task_pc = "relay" /\ loop_pc["c2s"] # "done") => ENABLED client_to_server
    /\ (task_pc = "relay" /\ loop_pc["s2c"] # "done") => ENABLED server_to_client
    /\ (task_pc = "relay" /\ loop_pc["c2s"] = "read" /\ Pending("c2s") # <<>>) =>
          ENABLED (client_to_server /\ loop_pc'["c2s"] = "write")
    /\ (task_pc = "relay" /\ loop_pc["s2c"] = "read" /\ Pending("s2c") # <<>>) =>
          ENABLED (server_to_client /\ loop_pc'["s2c"] = "write")
    /\ (task_pc = "relay" /\ loop_pc["c2s"] = "write") =>
          ENABLED (client_to_server /\ written'["c2s"] = written["c2s"] \o buffer["c2s"])
    /\ (task_pc = "relay" /\ loop_pc["s2c"] = "write") =>
          ENABLED (server_to_client /\ written'["s2c"] = written["s2c"] \o buffer["s2c"])

\* C18: when both loops are scheduled fairly and every pending read, write
\* and shutdown returns in the end, both loops end and the session is
\* Closed; and no loop ever waits for the other: a direction with bytes
\* pending goes on while the other direction stands idle at its read.
C18_RelayTerminates ==
    /\ []C18_State
    /\ (task_pc = "relay") ~> (Closed /\ \A d \in Dirs : Finished(d))

\* the destination's bytes are pending while the client direction stands at
\* a read with nothing to read and its source still open
C18_Witness ==
    /\ task_pc = "relay"
    /\ loop_pc["c2s"] = "read"
    /\ Pending("c2s") = <<>>
    /\ ~src_closed["c2s"]
    /\ loop_pc["s2c"] = "read"
    /\ Len(Pending("s2c")) >= 2
    /\ Len(written["s2c"]) >= 1

\* ---- CONNECT and the gateway ----
\* the host:port text of the request's authority
RequestedAddr == AuthorityToString(Unwrap(req.uri.authority))

\* C19: a CONNECT request is never classified or rewritten: whether or not
\* its host matches a configured suffix, the HTTP client is not called, no
\* response of the plain-HTTP branch is returned, and the address moved into
\* the task and dialed is the authority of the request, never the gateway.
C19_ConnectBypassesGateway ==
    IsConnect =>
        /\ client_calls = <<>>
        /\ client_results = <<>>
        /\ pc # "client_request"
        /\ \A i \in DOMAIN returned :
              \/ returned[i].origin = "core upgrade"
              \/ returned[i].response.body
                    = <<"CONNECT error: ", "CONNECT request missing authority">>
        /\ task_pc # "none" =>
              /\ HasAuthority
              /\ addr = RequestedAddr
              /\ addr # config.ton_gateway
              /\ addr # trim_end_matches(config.ton_gateway)
        /\ \A i \in DOMAIN dialed : dialed[i] = RequestedAddr
        /\ Len(dialed) <= 1

\* the task of a CONNECT request whose host matches a configured suffix has
\* dialed the host and port of the request
C19_Witness ==
    /\ IsConnect
    /\ HasAuthority
    /\ Matches
    /\ Unwrap(req.uri.authority).port # NoPort
    /\ dialed = <<RequestedAddr>>
    /\ task_pc = "relay"

\* ---- shutdown after an error ----
\* the loop of direction d has ended by a failed read or a failed write
FailedInLoop(d) == loop_pc[d] = "done" /\ loop_result[d] \in {"read error", "write error"}

C20_State ==
    \A d \in Dirs :
        \* shutdown was called only after a read of zero bytes, that is after
        \* the source closed and every byte it sent was read and written
        /\ shutdown[d] =>
              /\ src_closed[d]
              /\ rd[d] = sent[d]
              /\ written[d] = sent[d]
              /\ loop_pc[d] = "done"
              /\ loop_result[d] \in {"Ok", "shutdown error"}
        /\ half_closed[d] => shutdown[d]
        \* a loop ended by a failed read or write has called no shutdown and
        \* its peer has received no half-close
        /\ FailedInLoop(d) => (~shutdown[d] /\ ~half_closed[d])

C20_Step ==
    \A d \in Dirs :
        /\ (~shutdown[d] /\ shutdown'[d]) => loop_pc[d] = "shutdown"
        /\ (loop_pc[d] # "shutdown" /\ loop_pc'[d] = "shutdown") =>
              (loop_pc[d] = "read" /\ Pending(d) = <<>> /\ src_closed[d])
        /\ FailedInLoop(d) =>
              (FailedInLoop(d)' /\ ~shutdown'[d] /\ ~half_closed'[d])

\* C20: a relay loop calls shutdown on its peer's write end only after a
\* read of zero bytes from its source. A loop that ends by a failed read or
\* write never calls it, so the opposite endpoint gets no half-close from
\* that loop for as long as the session lasts.
C20_ShutdownOnlyAfterEof == []C20_State /\ [][C20_Step]_vars

\* the client has sent bytes and closed, but the client direction ended in a
\* failed write: the session is over and the destination never got the
\* half-close, while the other direction ended with its own
C20_Witness ==
    /\ task_pc = "end"
    /\ loop_result["c2s"] = "write error"
    /\ src_closed["c2s"]
    /\ Len(sent["c2s"]) >= 2
    /\ ~shutdown["c2s"]
    /\ ~half_closed["c2s"]
    /\ half_closed["s2c"]

====
